---- MODULE Spec2Model ----
(***************************************************************************)
(* NewsML-G2 feed parser (superdesk/io/feed_parsers/newsml_2_0.py).        *)
(*                                                                         *)
(* An XML element is a record [tag, attrib, text, children]; a tag is the  *)
(* pair <<namespace, local name>>.  A Python str is a sequence of tokens:  *)
(* a character the parser looks at on its own (the ':' of a qcode, '\n'    *)
(* and ' ' of a body, the digits of a number, the letters of a language    *)
(* tag) is a token of its own, any other run of characters is one opaque   *)
(* token.  None is the value None below.                                   *)
(* A call that may raise returns Ok(value) or Raise(exception type).       *)
(***************************************************************************)
EXTENDS Integers, Sequences, FiniteSets, TLC

VARIABLES xml, pc, header, items, item, tree, si, ii, exc, calls, result

vars == <<xml, pc, header, items, item, tree, si, ii, exc, calls, result>>

\* ---------------------------------------------------------------- values

None == <<"None">>

XMLNS == "http://iptc.org/std/nar/2006-10-01/"
XHTML == "http://www.w3.org/1999/xhtml"
XmlLang == "{http://www.w3.org/XML/1998/namespace}lang"

ITEM_TYPE == "type"
PREFORMATTED == <<"preformatted">>
COMPOSITE == <<"composite">>

Ok(v) == [ok |-> TRUE, val |-> v]
Raise(e) == [ok |-> FALSE, exc |-> e]

EmptyDict == [k \in {} |-> None]
Put(d, k, v) == [x \in (DOMAIN d) \cup {k} |-> IF x = k THEN v ELSE d[x]]
Get(d, k, default) == IF k \in DOMAIN d THEN d[k] ELSE default

Truthy(s) == s # None /\ s # <<>>

\* ------------------------------------------------------------- str methods

Digits == <<"0", "1", "2", "3", "4", "5", "6", "7", "8", "9">>
IsDigit(c) == \E d \in 1..10 : Digits[d] = c
DigitVal(c) == (CHOOSE d \in 1..10 : Digits[d] = c) - 1

RECURSIVE IntOfDigits(_)
IntOfDigits(s) ==
    IF s = <<>> THEN 0
    ELSE 10 * IntOfDigits(SubSeq(s, 1, Len(s) - 1)) + DigitVal(s[Len(s)])

\* int(s): TypeError on None, ValueError on anything but a run of digits
int(s) ==
    IF s = None THEN Raise("TypeError")
    ELSE IF s # <<>> /\ \A k \in 1..Len(s) : IsDigit(s[k])
         THEN Ok(IntOfDigits(s))
         ELSE Raise("ValueError")

\* s.split(sep) for a one-character separator
RECURSIVE Split(_, _)
Split(s, sep) ==
    IF \A k \in 1..Len(s) : s[k] # sep THEN <<s>>
    ELSE LET p == CHOOSE k \in 1..Len(s) :
                      s[k] = sep /\ \A m \in 1..(k - 1) : s[m] # sep
         IN <<SubSeq(s, 1, p - 1)>> \o Split(SubSeq(s, p + 1, Len(s)), sep)

StartsWith(s, prefix) ==
    Len(s) >= Len(prefix) /\ SubSeq(s, 1, Len(prefix)) = prefix

\* s.replace(old, new): leftmost non-overlapping occurrences
RECURSIVE Replace(_, _, _)
Replace(s, old, new) ==
    IF Len(s) < Len(old) THEN s
    ELSE IF StartsWith(s, old)
         THEN new \o Replace(SubSeq(s, Len(old) + 1, Len(s)), old, new)
         ELSE <<s[1]>> \o Replace(Tail(s), old, new)

\* sep.join(parts)
RECURSIVE Join(_, _)
Join(sep, parts) ==
    IF parts = <<>> THEN <<>>
    ELSE IF Len(parts) = 1 THEN parts[1]
    ELSE parts[1] \o sep \o Join(sep, Tail(parts))

Lower(s) ==
    [k \in 1..Len(s) |->
        IF s[k] = "USABLE" THEN "usable"
        ELSE IF s[k] = "Canceled" THEN "canceled"
        ELSE s[k]]

\* ------------------------------------------------------------ ElementTree

Elem(tag, attrib, text, children) ==
    [tag |-> tag, attrib |-> attrib, text |-> text, children |-> children]

qname(name) == <<XMLNS, name>>
qname_ns(name, ns) == <<ns, name>>

RECURSIVE SelectTag(_, _)
SelectTag(children, q) ==
    IF children = <<>> THEN <<>>
    ELSE (IF children[1].tag = q THEN <<children[1]>> ELSE <<>>)
         \o SelectTag(Tail(children), q)

findall(t, q) == SelectTag(t.children, q)
Has(t, q) == findall(t, q) # <<>>
find(t, q) == findall(t, q)[1]

Bind(r, F(_)) == IF r.ok THEN F(r.val) ELSE r

\* tree.attrib[name]
Attr(t, name) ==
    IF name \in DOMAIN t.attrib THEN Ok(t.attrib[name]) ELSE Raise("KeyError")

\* tree.find(q).text
FindText(t, q) == IF Has(t, q) THEN Ok(find(t, q).text) ELSE Raise("AttributeError")

\* tree.find(q).attrib['qcode'].split(':')[1]
FindQcodePart(t, q) ==
    IF ~Has(t, q) THEN Raise("AttributeError")
    ELSE Bind(Attr(find(t, q), "qcode"),
              LAMBDA qc : IF Len(Split(qc, ":")) >= 2
                          THEN Ok(Split(qc, ":")[2])
                          ELSE Raise("IndexError"))

\* -------------------------------------------------------- collaborators

Priorities == {<<"1">>, <<"2">>, <<"3">>, <<"4">>, <<"5">>, <<"6">>}

\* the priority table: a known priority maps to its number, any other text
\* (None included) to the table's fallback, Ordinary
Ordinary == 6

map_priority(source_priority) ==
    IF source_priority \in Priorities THEN int(source_priority).val ELSE Ordinary

\* the classification predicate: a composite item that is no takes package
is_normal_package(doc) ==
    doc[ITEM_TYPE] = COMPOSITE /\ "package_type" \notin DOMAIN doc

subject_codes ==
    [c \in {<<"15000000">>, <<"04000000">>} |->
        IF c = <<"15000000">> THEN <<"sport">> ELSE <<"economy, business and finance">>]

Dates == {"2018-01-01", "2018-01-02"}
Times == {"10:00:00"}

arrow_get(string) ==
    IF Len(string) \in {3, 4} /\ string[1] \in Dates /\ string[2] = "T"
       /\ string[3] \in Times
       /\ (Len(string) = 4 => string[4] \in {"Z", ".000Z", "+01:00"})
    THEN Ok([date |-> string[1], time |-> string[3],
             tzinfo |-> IF Len(string) = 4 /\ string[4] = "+01:00"
                        THEN "+01:00" ELSE "UTC"])
    ELSE Raise("arrow.ParserError")

\* ------------------------------------------------- NewsMLTwoFeedParser

datetime(string) ==
    IF string = None THEN Raise("TypeError")
    ELSE IF Len(string) = 4 /\ string[1] \in Dates /\ string[2] = "T"
            /\ string[3] \in Times /\ string[4] = ".000Z"
         THEN Ok([date |-> string[1], time |-> string[3], tzinfo |-> "naive"])
         ELSE arrow_get(string)

get_literal_name(el) ==
    IF Has(el, qname("name")) THEN find(el, qname("name")).text
    ELSE Get(el.attrib, "literal", None)

parse_header(t) ==
    IF Has(t, qname("header"))
    THEN Bind(FindText(find(t, qname("header")), qname("priority")),
              LAMBDA text : Ok([priority |-> map_priority(text)]))
    ELSE Ok([priority |-> 5])

\* a faulty variant: the guid without the version
parse_item_ids_bare(t) ==
    Bind(Attr(t, "guid"), LAMBDA guid :
    Bind(Attr(t, "version"), LAMBDA version :
        Ok(Put(Put(Put(EmptyDict, "guid", guid), "uri", guid), "version", version))))

parse_item_ids(t) ==
    Bind(Attr(t, "guid"), LAMBDA guid :
    Bind(Attr(t, "version"), LAMBDA version :
        Ok(Put(Put(Put(EmptyDict, "guid", guid \o <<":">> \o version),
                   "uri", guid), "version", version))))

parse_item_meta(t, it) ==
    IF ~Has(t, qname("itemMeta")) THEN Raise("AttributeError")
    ELSE LET meta == find(t, qname("itemMeta")) IN
    Bind(FindQcodePart(meta, qname("itemClass")), LAMBDA cls :
    Bind(Bind(FindText(meta, qname("versionCreated")), datetime), LAMBDA vc :
    Bind(Bind(FindText(meta, qname("firstCreated")), datetime), LAMBDA fc :
    Bind(FindQcodePart(meta, qname("pubStatus")), LAMBDA st :
        Ok(Put(Put(Put(Put(Put(it, ITEM_TYPE, cls),
                           "versioncreated", vc),
                       "firstcreated", fc),
                   "pubstatus", Lower(st)),
               "ednote", IF Has(meta, qname("edNote"))
                         THEN find(meta, qname("edNote")).text
                         ELSE <<>>))))))

\* a faulty variant: the 'subj' prefix is not looked at
RECURSIVE SubjectListAnyScheme(_)
SubjectListAnyScheme(subjects) ==
    IF subjects = <<>> THEN <<>>
    ELSE LET qcode_parts == Split(Get(subjects[1].attrib, "qcode", <<>>), ":") IN
         (IF Len(qcode_parts) = 2 /\ qcode_parts[2] \in DOMAIN subject_codes
          THEN <<[qcode |-> qcode_parts[2],
                  name |-> subject_codes[qcode_parts[2]]]>>
          ELSE <<>>)
         \o SubjectListAnyScheme(Tail(subjects))

RECURSIVE SubjectList(_)
SubjectList(subjects) ==
    IF subjects = <<>> THEN <<>>
    ELSE LET qcode_parts == Split(Get(subjects[1].attrib, "qcode", <<>>), ":") IN
         (IF Len(qcode_parts) = 2 /\ qcode_parts[1] = <<"subj">>
             /\ qcode_parts[2] \in DOMAIN subject_codes
          THEN <<[qcode |-> qcode_parts[2],
                  name |-> subject_codes[qcode_parts[2]]]>>
          ELSE <<>>)
         \o SubjectList(Tail(subjects))

parse_content_subject(t, it) ==
    Put(it, "subject", SubjectList(findall(t, qname("subject"))))

PlaceOf(subject) ==
    <<[name |-> get_literal_name(subject)]>>
    \o (IF Has(subject, qname("broader"))
        THEN <<[name |-> get_literal_name(find(subject, qname("broader")))]>>
        ELSE <<>>)

\* a faulty variant: the places of every place subject accumulate
RECURSIVE PlaceLoopAll(_, _)
PlaceLoopAll(subjects, it) ==
    IF subjects = <<>> THEN it
    ELSE PlaceLoopAll(Tail(subjects),
                      IF Get(subjects[1].attrib, "type", <<>>) = <<"cptType", ":", "5">>
                      THEN Put(it, "place", Get(it, "place", <<>>) \o PlaceOf(subjects[1]))
                      ELSE it)

RECURSIVE PlaceLoop(_, _)
PlaceLoop(subjects, it) ==
    IF subjects = <<>> THEN it
    ELSE PlaceLoop(Tail(subjects),
                   IF Get(subjects[1].attrib, "type", <<>>) = <<"cptType", ":", "5">>
                   THEN Put(it, "place", PlaceOf(subjects[1]))
                   ELSE it)

parse_content_place(t, it) == PlaceLoop(findall(t, qname("subject")), it)

\* parse_meta_item_text(key, dest) for a dest other than 'urgency'
parse_meta_item_text(meta, it, key, dest) ==
    IF Has(meta, qname(key)) THEN Put(it, dest, find(meta, qname(key)).text) ELSE it

RECURSIVE OriginalSource(_, _)
OriginalSource(sources, it) ==
    IF sources = <<>> THEN it
    ELSE IF Get(sources[1].attrib, "role", <<>>) = <<"cRole", ":", "source">>
         THEN Put(it, "original_source", Get(sources[1].attrib, "literal", None))
         ELSE OriginalSource(Tail(sources), it)

RECURSIVE GenreNames(_)
GenreNames(names) ==
    IF names = <<>> THEN <<>>
    ELSE LET lang == Get(names[1].attrib, XmlLang, None) IN
         (IF Truthy(lang) /\ StartsWith(lang, <<"e", "n">>)
          THEN <<[name |-> names[1].text]>> ELSE <<>>)
         \o GenreNames(Tail(names))

RECURSIVE GenreList(_)
GenreList(genres) ==
    IF genres = <<>> THEN <<>>
    ELSE GenreNames(findall(genres[1], qname("name"))) \o GenreList(Tail(genres))

parse_content_meta(t, it) ==
    IF ~Has(t, qname("contentMeta")) THEN Raise("AttributeError")
    ELSE LET meta == find(t, qname("contentMeta")) IN
    Bind(IF Has(meta, qname("urgency"))
         THEN Bind(int(find(meta, qname("urgency")).text),
                   LAMBDA n : Ok(Put(it, "urgency", n)))
         ELSE Ok(it),
         LAMBDA i1 :
    LET i2 == parse_meta_item_text(meta,
                  parse_meta_item_text(meta,
                      parse_meta_item_text(meta, i1, "slugline", "slugline"),
                      "headline", "headline"),
                  "by", "byline")
        i3 == Put(Put(i2, "slugline", Get(i2, "slugline", <<>>)),
                  "headline", Get(i2, "headline", <<>>))
        i4 == IF Has(meta, qname("description"))
              THEN Put(Put(i3, "description_text", find(meta, qname("description")).text),
                       "archive_description", find(meta, qname("description")).text)
              ELSE i3
        i5 == IF Has(meta, qname("language"))
              THEN Put(i4, "language",
                       Get(find(meta, qname("language")).attrib, "tag", None))
              ELSE i4
        i6 == parse_content_place(meta, parse_content_subject(meta, i5))
        i7 == OriginalSource(findall(meta, qname("infoSource")), i6)
    IN Ok(Put(i7, "genre", GenreList(findall(meta, qname("genre"))))))

parse_rights_info(t, it) ==
    IF Has(t, qname("rightsInfo"))
    THEN LET info == find(t, qname("rightsInfo")) IN
         Put(it, "usageterms",
             IF Has(info, qname("usageTerms"))
             THEN find(info, qname("usageTerms")).text ELSE <<>>)
    ELSE it

\* a faulty variant: the first headline child is kept
ParseRefFirstHeadline(t) ==
    IF "idref" \in DOMAIN t.attrib
    THEN Ok(Put(EmptyDict, "idRef", t.attrib["idref"]))
    ELSE
    Bind(Attr(t, "residref"), LAMBDA residref :
    Bind(Attr(t, "contenttype"), LAMBDA contenttype :
    Bind(IF Has(t, qname("itemClass"))
         THEN Attr(find(t, qname("itemClass")), "qcode")
         ELSE Raise("AttributeError"), LAMBDA itemClass :
    LET ref == Put(Put(Put(EmptyDict, "residRef",
                           IF "version" \in DOMAIN t.attrib
                           THEN residref \o <<":">> \o t.attrib["version"]
                           ELSE residref),
                       "contentType", contenttype),
                   "itemClass", itemClass)
        headlines == findall(t, qname("headline"))
    IN Ok(IF headlines = <<>> THEN ref
          ELSE Put(ref, "headline", headlines[1].text)))))

\* one iteration of the loop of parse_refs
ParseRef(t) ==
    IF "idref" \in DOMAIN t.attrib
    THEN Ok(Put(EmptyDict, "idRef", t.attrib["idref"]))
    ELSE
    Bind(Attr(t, "residref"), LAMBDA residref :
    Bind(Attr(t, "contenttype"), LAMBDA contenttype :
    Bind(IF Has(t, qname("itemClass"))
         THEN Attr(find(t, qname("itemClass")), "qcode")
         ELSE Raise("AttributeError"), LAMBDA itemClass :
    LET ref == Put(Put(Put(EmptyDict, "residRef",
                           IF "version" \in DOMAIN t.attrib
                           THEN residref \o <<":">> \o t.attrib["version"]
                           ELSE residref),
                       "contentType", contenttype),
                   "itemClass", itemClass)
        headlines == findall(t, qname("headline"))
    IN Ok(IF headlines = <<>> THEN ref
          ELSE Put(ref, "headline", headlines[Len(headlines)].text)))))

RECURSIVE RefsLoop(_, _)
RefsLoop(children, refs) ==
    IF children = <<>> THEN Ok(refs)
    ELSE Bind(ParseRef(children[1]),
              LAMBDA ref : RefsLoop(Tail(children), Append(refs, ref)))

parse_refs(group_tree) == RefsLoop(group_tree.children, <<>>)

RECURSIVE GroupLoop(_, _)
GroupLoop(children, groups) ==
    IF children = <<>> THEN Ok(groups)
    ELSE
    Bind(Attr(children[1], "id"), LAMBDA id :
    Bind(Attr(children[1], "role"), LAMBDA role :
    Bind(parse_refs(children[1]), LAMBDA refs :
        GroupLoop(Tail(children),
                  Append(groups, [id |-> id, role |-> role, refs |-> refs])))))

parse_group_set(t, it) ==
    IF ~Has(t, qname("groupSet")) THEN Raise("TypeError")
    ELSE Bind(GroupLoop(find(t, qname("groupSet")).children, <<>>),
              LAMBDA groups : Ok(Put(it, "groups", groups)))

\* a faulty variant: the version is appended to residRef, as parse_refs does
parse_remote_content_versioned(t) ==
    Bind(int(Get(t.attrib, "size", <<"0">>)), LAMBDA size :
    Bind(Attr(t, "rendition"), LAMBDA rendition :
    Bind(IF Len(Split(rendition, ":")) >= 2
         THEN Ok(Split(rendition, ":")[2]) ELSE Raise("IndexError"), LAMBDA name :
    Bind(Attr(t, "contenttype"), LAMBDA contenttype :
        Ok([residRef |-> IF "version" \in DOMAIN t.attrib /\ "residref" \in DOMAIN t.attrib
                         THEN t.attrib["residref"] \o <<":">> \o t.attrib["version"]
                         ELSE Get(t.attrib, "residref", None),
            sizeinbytes |-> size,
            rendition |-> name,
            mimetype |-> contenttype,
            href |-> Get(t.attrib, "href", None)])))))

parse_remote_content(t) ==
    Bind(int(Get(t.attrib, "size", <<"0">>)), LAMBDA size :
    Bind(Attr(t, "rendition"), LAMBDA rendition :
    Bind(IF Len(Split(rendition, ":")) >= 2
         THEN Ok(Split(rendition, ":")[2]) ELSE Raise("IndexError"), LAMBDA name :
    Bind(Attr(t, "contenttype"), LAMBDA contenttype :
        Ok([residRef |-> Get(t.attrib, "residref", None),
            sizeinbytes |-> size,
            rendition |-> name,
            mimetype |-> contenttype,
            href |-> Get(t.attrib, "href", None)])))))

\* elem.tag.rsplit('}')[1]
LocalName(tag) == tag[2]

Format(elem) ==
    <<"<", LocalName(elem.tag), ">">> \o elem.text \o <<"</", LocalName(elem.tag), ">">>

RECURSIVE Elements(_)
Elements(children) ==
    IF children = <<>> THEN <<>>
    ELSE (IF Truthy(children[1].text) THEN <<Format(children[1])>> ELSE <<>>)
         \o Elements(Tail(children))

\* the rewrite of line 241
Breaks(s) ==
    Replace(Replace(s, <<"\n", " ", " ", " ", " ">>, <<"</", "p", ">", "<", "p", ">">>),
            <<"\n">>, <<"<", "br", "/>">>)

\* the condition of line 240
SingleParagraph(body, elements) ==
    Len(elements) = 1 /\ LocalName(body.children[1].tag) = "p"

parse_inline_content(t) ==
    IF ~Has(t, qname_ns("html", XHTML)) THEN Raise("AttributeError")
    ELSE IF ~Has(find(t, qname_ns("html", XHTML)), qname_ns("body", XHTML))
    THEN Raise("AttributeError")
    ELSE
    LET body == find(find(t, qname_ns("html", XHTML)), qname_ns("body", XHTML))
        found == Elements(body.children)
        elements == IF SingleParagraph(body, found) THEN <<Breaks(found[1])>> ELSE found
    IN
    Bind(Attr(t, "contenttype"), LAMBDA contenttype :
        LET content == Put(EmptyDict, "contenttype", contenttype) IN
        Ok(IF Len(elements) > 0
           THEN Put(content, "content", Join(<<"\n">>, elements))
           ELSE IF Truthy(body.text)
           THEN Put(Put(content, "content",
                        <<"<", "pre", ">">> \o body.text \o <<"</", "pre", ">">>),
                    "format", PREFORMATTED)
           ELSE content))

\* item['word_count'] = int(content.attrib['wordcount']), KeyError passed over
WordCount(content, it) ==
    IF "wordcount" \in DOMAIN content.attrib
    THEN Bind(int(content.attrib["wordcount"]), LAMBDA n : Ok(Put(it, "word_count", n)))
    ELSE Ok(it)

\* one iteration of the loop of parse_content_set
ParseContent(content, it) ==
    IF content.tag = qname("inlineXML")
    THEN Bind(WordCount(content, it), LAMBDA i1 :
         Bind(parse_inline_content(content), LAMBDA parsed :
            LET i2 == Put(i1, "body_html", Get(parsed, "content", None)) IN
            Ok(IF "format" \in DOMAIN parsed
               THEN Put(i2, "format", parsed["format"]) ELSE i2)))
    ELSE IF content.tag = qname("inlineData")
    THEN WordCount(content, Put(it, "body_html", content.text))
    ELSE Bind(parse_remote_content(content), LAMBDA rendition :
            Ok(Put(it, "renditions",
                   Put(it["renditions"], rendition.rendition, rendition))))

RECURSIVE ContentLoop(_, _)
ContentLoop(children, it) ==
    IF children = <<>> THEN Ok(it)
    ELSE Bind(ParseContent(children[1], it),
              LAMBDA i1 : ContentLoop(Tail(children), i1))

parse_content_set(t, it) ==
    IF ~Has(t, qname("contentSet")) THEN Raise("TypeError")
    ELSE ContentLoop(find(t, qname("contentSet")).children,
                     Put(it, "renditions", EmptyDict))

\* ------------------------------------------------------ parse(), stepwise

NoTree == Elem(<<"", "">>, EmptyDict, None, <<>>)
Pending == [kind |-> "pending"]

ItemSets == findall(xml, qname("itemSet"))

\* the state on entry to parse(xml): self.root = xml, items = []
InitOn(documents) ==
    /\ xml \in documents
    /\ pc = "parse_header"
    /\ header = EmptyDict
    /\ items = <<>>
    /\ item = EmptyDict
    /\ tree = NoTree
    /\ si = 1
    /\ ii = 1
    /\ exc = "none"
    /\ calls = <<>>
    /\ result = Pending

\* a step of parse_item: the call's outcome replaces item, or the exception
\* leaves for the handler of parse()
Step(name, r, next) ==
    /\ calls' = Append(calls, name)
    /\ IF r.ok
       THEN /\ item' = r.val
            /\ pc' = next
            /\ exc' = exc
       ELSE /\ item' = item
            /\ pc' = "except"
            /\ exc' = r.exc
    /\ UNCHANGED <<xml, header, items, tree, si, ii, result>>

ParseHeader ==
    /\ pc = "parse_header"
    /\ LET r == parse_header(xml) IN
       IF r.ok
       THEN /\ header' = r.val
            /\ pc' = "for_item"
            /\ exc' = exc
       ELSE /\ header' = header
            /\ pc' = "except"
            /\ exc' = r.exc
    /\ UNCHANGED <<xml, items, item, tree, si, ii, calls, result>>

\* the two for statements of lines 46-47
ForItem ==
    /\ pc = "for_item"
    /\ IF si > Len(ItemSets)
       THEN /\ pc' = "return"
            /\ UNCHANGED <<si, ii, tree, calls>>
       ELSE IF ii > Len(ItemSets[si].children)
       THEN /\ si' = si + 1
            /\ ii' = 1
            /\ UNCHANGED <<pc, tree, calls>>
       ELSE /\ tree' = ItemSets[si].children[ii]
            /\ calls' = <<>>
            /\ pc' = "parse_item"
            /\ UNCHANGED <<si, ii>>
    /\ UNCHANGED <<xml, header, items, item, exc, result>>

ParseItemIds ==
    /\ pc = "parse_item"
    /\ Step("parse_item", parse_item_ids(tree), "parse_item_meta")

ParseItemMeta ==
    /\ pc = "parse_item_meta"
    /\ Step("parse_item_meta", parse_item_meta(tree, item), "parse_content_meta")

ParseContentMeta ==
    /\ pc = "parse_content_meta"
    /\ Step("parse_content_meta", parse_content_meta(tree, item), "parse_rights_info")

ParseRightsInfo ==
    /\ pc = "parse_rights_info"
    /\ Step("parse_rights_info", Ok(parse_rights_info(tree, item)), "is_normal_package")

\* a faulty variant: the branches of line 65 swapped
IsNormalPackageSwapped ==
    /\ pc = "is_normal_package"
    /\ Step("is_normal_package", Ok(item),
            IF is_normal_package(item) THEN "parse_content_set" ELSE "parse_group_set")

IsNormalPackage ==
    /\ pc = "is_normal_package"
    /\ Step("is_normal_package", Ok(item),
            IF is_normal_package(item) THEN "parse_group_set" ELSE "parse_content_set")

ParseGroupSet ==
    /\ pc = "parse_group_set"
    /\ Step("parse_group_set", parse_group_set(tree, item), "append")

ParseContentSet ==
    /\ pc = "parse_content_set"
    /\ Step("parse_content_set", parse_content_set(tree, item), "append")

\* lines 49-50
AppendItem ==
    /\ pc = "append"
    /\ item' = Put(item, "priority", header.priority)
    /\ items' = Append(items, item')
    /\ ii' = ii + 1
    /\ pc' = "for_item"
    /\ UNCHANGED <<xml, header, tree, si, exc, calls, result>>

Return ==
    /\ pc = "return"
    /\ result' = [kind |-> "items", items |-> items]
    /\ pc' = "done"
    /\ UNCHANGED <<xml, header, items, item, tree, si, ii, exc, calls>>

\* a faulty variant: the handler hands back the items parsed so far
ExceptPartial ==
    /\ pc = "except"
    /\ result' = [kind |-> "items", items |-> items]
    /\ pc' = "done"
    /\ UNCHANGED <<xml, header, items, item, tree, si, ii, exc, calls>>

\* lines 52-53
Except ==
    /\ pc = "except"
    /\ result' = [kind |-> "ParserError", cause |-> exc]
    /\ pc' = "done"
    /\ UNCHANGED <<xml, header, items, item, tree, si, ii, exc, calls>>

Next ==
    \/ ParseHeader
    \/ ForItem
    \/ ParseItemIds
    \/ ParseItemMeta
    \/ ParseContentMeta
    \/ ParseRightsInfo
    \/ IsNormalPackage
    \/ ParseGroupSet
    \/ ParseContentSet
    \/ AppendItem
    \/ Return
    \/ Except

\* ---------------------------------------------------------------- inputs

MaxItems == 3
MaxItemSets == 2
MaxSubjects == 3
MaxRefs == 2
MaxGroups == 2
MaxContents == 3
MaxBodyChildren == 3

E(name, attrib, text, children) == Elem(qname(name), attrib, text, children)
X(name, attrib, text, children) == Elem(qname_ns(name, XHTML), attrib, text, children)

SeqsUpTo(S, n) == UNION {[1..k -> S] : k \in 0..n}

\* the ways to cut sequence s into k consecutive runs
RECURSIVE Cuts(_, _)
Cuts(s, k) ==
    IF k = 0 THEN (IF s = <<>> THEN {<<>>} ELSE {})
    ELSE UNION {{<<SubSeq(s, 1, c)>> \o rest :
                    rest \in Cuts(SubSeq(s, c + 1, Len(s)), k - 1)} :
                c \in 0..Len(s)}

Stamp == <<"2018-01-01", "T", "10:00:00", ".000Z">>
StampOffset == <<"2018-01-02", "T", "10:00:00", "+01:00">>

ItemMetaOf(class) ==
    E("itemMeta", EmptyDict, None,
      <<E("itemClass", [qcode |-> <<"ninat", ":", class>>], None, <<>>),
        E("versionCreated", EmptyDict, Stamp, <<>>),
        E("firstCreated", EmptyDict, StampOffset, <<>>),
        E("pubStatus", [qcode |-> <<"stat", ":", "USABLE">>], None, <<>>)>>)

Message(headers, itemSets) == E("newsMessage", EmptyDict, None, headers \o itemSets)
ItemSet(trees) == E("itemSet", EmptyDict, None, trees)
Item(attrib, children) == E("item", attrib, None, children)

Ids(guid) == [guid |-> <<guid>>, version |-> <<"1">>]

TextItemOf(attrib, metaChildren, contents) ==
    Item(attrib, <<ItemMetaOf("text"),
                   E("contentMeta", EmptyDict, None, metaChildren),
                   E("contentSet", EmptyDict, None, contents)>>)

PackageItemOf(attrib, groups) ==
    Item(attrib, <<ItemMetaOf("composite"),
                   E("contentMeta", EmptyDict, None, <<>>),
                   E("groupSet", EmptyDict, None, groups)>>)

TextItem(guid) == TextItemOf(Ids(guid), <<>>, <<>>)
PackageItem(guid) == PackageItemOf(Ids(guid), <<>>)
NoGuidItem == TextItemOf([version |-> <<"1">>], <<>>, <<>>)

WellFormedItems == {TextItem("a"), PackageItem("b")}
BaseItems == WellFormedItems \cup {NoGuidItem}

\* a document of one item set holding one item
SingleItem(t) == Message(<<>>, <<ItemSet(<<t>>)>>)
SingleItemDocuments(trees) == {SingleItem(t) : t \in trees \cup BaseItems}

\* -- documents of several items and item sets, with and without a header

Headers ==
    {<<>>, <<E("header", EmptyDict, None, <<>>)>>}
    \cup {<<E("header", EmptyDict, None, <<E("priority", EmptyDict, text, <<>>)>>)>> :
            text \in {<<"3">>, <<"x">>}}

Documents ==
    {Message(h, sets) :
        h \in Headers,
        sets \in UNION {UNION {{[j \in 1..k |-> ItemSet(runs[j])] : runs \in Cuts(s, k)} :
                                 k \in 0..MaxItemSets} :
                          s \in SeqsUpTo(BaseItems, MaxItems)}}

Init == InitOn(Documents)

Spec == Init /\ [][Next]_vars

\* -- single items: every combination of the parts of an item

IdsChoices ==
    {Ids("a"), [guid |-> <<"a">>], [version |-> <<"1">>], EmptyDict}

ItemMetaChoices ==
    {<<>>, <<ItemMetaOf("text")>>, <<ItemMetaOf("composite")>>}

ContentMetaChoices ==
    {<<>>,
     <<E("contentMeta", EmptyDict, None, <<>>)>>,
     <<E("contentMeta", EmptyDict, None,
         <<E("urgency", EmptyDict, <<"3">>, <<>>),
           E("slugline", EmptyDict, <<"slug">>, <<>>),
           E("headline", EmptyDict, <<"head">>, <<>>),
           E("by", EmptyDict, <<"by me">>, <<>>),
           E("description", EmptyDict, <<"desc">>, <<>>),
           E("language", [tag |-> <<"e", "n">>], None, <<>>),
           E("infoSource", [role |-> <<"cRole", ":", "source">>,
                            literal |-> <<"AP">>], None, <<>>),
           E("genre", EmptyDict, None,
             <<E("name", (XmlLang :> <<"e", "n", "-", "G", "B">>), <<"Feature">>, <<>>),
               E("name", (XmlLang :> <<"f", "r">>), <<"Article">>, <<>>)>>)>>)>>}

RightsInfoChoices ==
    {<<>>,
     <<E("rightsInfo", EmptyDict, None, <<>>)>>,
     <<E("rightsInfo", EmptyDict, None,
         <<E("usageTerms", EmptyDict, <<"terms">>, <<>>)>>)>>}

Remote(attrib) == E("remoteContent", attrib, None, <<>>)

Original ==
    Remote([rendition |-> <<"rendition", ":", "original">>, residref |-> <<"R1">>,
            version |-> <<"2">>, size |-> <<"1", "0", "2", "4">>,
            contenttype |-> <<"image/jpeg">>, href |-> <<"http://x/1">>])

GroupOf(attrib, refs) == E("group", attrib, None, refs)

MainGroup ==
    GroupOf([id |-> <<"G1">>, role |-> <<"grpRole:main">>],
            <<E("groupRef", [idref |-> <<"G2">>], None, <<>>)>>)

BodyChoices ==
    {<<>>,
     <<E("contentSet", EmptyDict, None, <<>>)>>,
     <<E("contentSet", EmptyDict, None,
         <<E("inlineData", EmptyDict, <<"plain">>, <<>>), Original>>)>>,
     <<E("groupSet", EmptyDict, None, <<>>)>>,
     <<E("groupSet", EmptyDict, None, <<MainGroup>>)>>,
     <<E("contentSet", EmptyDict, None, <<Original>>),
       E("groupSet", EmptyDict, None, <<MainGroup>>)>>}

ItemTrees ==
    {Item(a, m \o c \o r \o b) :
        a \in IdsChoices, m \in ItemMetaChoices, c \in ContentMetaChoices,
        r \in RightsInfoChoices, b \in BodyChoices}

InitItem == InitOn(SingleItemDocuments(ItemTrees))

SpecItem == InitItem /\ [][Next]_vars

\* -- subjects of contentMeta

Subject(attrib, children) == E("subject", attrib, None, children)

SubjectElems ==
    {Subject(EmptyDict, <<>>)}
    \cup {Subject([qcode |-> q], <<>>) :
            q \in {<<"subj", ":", "15000000">>, <<"subj", ":", "04000000">>,
                   <<"subj", ":", "99999999">>, <<"medtop", ":", "15000000">>,
                   <<"subj", ":", "15000000", ":", "x">>, <<"15000000">>}}

InitSubject ==
    InitOn(SingleItemDocuments(
        {TextItemOf(Ids("a"), subjects, <<>>) :
            subjects \in SeqsUpTo(SubjectElems, MaxSubjects)}))

SpecSubject == InitSubject /\ [][Next]_vars

Place == <<"cptType", ":", "5">>
Named(text) == E("name", EmptyDict, text, <<>>)

PlaceElems ==
    {Subject([qcode |-> <<"subj", ":", "15000000">>], <<>>),
     Subject([type |-> <<"cptType", ":", "9">>, literal |-> <<"Louvre">>], <<>>),
     Subject([type |-> Place], <<>>),
     Subject([type |-> Place, literal |-> <<"Berlin">>], <<>>),
     Subject([type |-> Place, literal |-> <<"FR-75">>], <<Named(<<"Paris">>)>>),
     Subject([type |-> Place], <<Named(<<"Lyon">>),
                                 E("broader", EmptyDict, None, <<Named(<<"France">>)>>)>>),
     Subject([type |-> Place, literal |-> <<"Rome">>],
             <<E("broader", [literal |-> <<"Italy">>], None, <<>>)>>)}

InitPlace ==
    InitOn(SingleItemDocuments(
        {TextItemOf(Ids("a"), subjects, <<>>) :
            subjects \in SeqsUpTo(PlaceElems, MaxSubjects)}))

SpecPlace == InitPlace /\ [][Next]_vars

\* -- groups and refs of a package

ItemRef(attrib, children) == E("itemRef", attrib, None, children)
Picture == E("itemClass", [qcode |-> <<"ninat", ":", "picture">>], None, <<>>)
Headline(text) == E("headline", EmptyDict, text, <<>>)

RefElems ==
    {ItemRef([idref |-> <<"G2">>], <<>>),
     ItemRef([idref |-> <<"G3">>, residref |-> <<"X">>], <<Headline(<<"h0">>)>>),
     ItemRef([residref |-> <<"X">>, version |-> <<"2">>, contenttype |-> <<"image/jpeg">>],
             <<Picture, Headline(<<"h1">>), Headline(<<"h2">>)>>),
     ItemRef([residref |-> <<"Y">>, contenttype |-> <<"image/png">>], <<Picture>>),
     ItemRef([contenttype |-> <<"image/png">>], <<Picture>>),
     ItemRef([residref |-> <<"Y">>], <<Picture>>),
     ItemRef([residref |-> <<"Y">>, contenttype |-> <<"image/png">>], <<>>),
     ItemRef([residref |-> <<"Y">>, contenttype |-> <<"image/png">>],
             <<E("itemClass", EmptyDict, None, <<>>)>>)}

GroupIds == <<"G1", "G2", "G3", "G4">>

\* the attributes of the j-th group; the first group may lack one
GroupAttrib(j, lacks) ==
    IF j = 1 /\ lacks = "id" THEN [role |-> <<"grpRole:main">>]
    ELSE IF j = 1 /\ lacks = "role" THEN [id |-> <<GroupIds[j]>>]
    ELSE [id |-> <<GroupIds[j]>>, role |-> <<"grpRole:main">>]

GroupSets ==
    UNION {UNION {{[j \in 1..k |-> GroupOf(GroupAttrib(j, lacks), runs[j])] :
                      runs \in Cuts(refs, k), lacks \in {"none", "id", "role"}} :
                  k \in 0..MaxGroups} :
           refs \in SeqsUpTo(RefElems, MaxRefs)}

InitGroups ==
    InitOn(SingleItemDocuments({PackageItemOf(Ids("b"), groups) : groups \in GroupSets}))

SpecGroups == InitGroups /\ [][Next]_vars

\* -- children of contentSet

ContentElems ==
    {Original,
     Remote([rendition |-> <<"rendition", ":", "original">>, residref |-> <<"R2">>,
             contenttype |-> <<"image/png">>]),
     Remote([rendition |-> <<"rendition", ":", "thumbnail">>, residref |-> <<"R3">>,
             version |-> <<"1">>, size |-> <<"1", "0">>, contenttype |-> <<"image/gif">>]),
     Remote([rendition |-> <<"rendition", ":", "viewImage">>, size |-> <<"7">>,
             contenttype |-> <<"image/jpeg">>, href |-> <<"http://x/2">>]),
     Remote([rendition |-> <<"rendition", ":", "baseImage">>, residref |-> <<"R5">>]),
     E("inlineData", [wordcount |-> <<"4", "2">>], <<"plain">>, <<>>)}

InitContentSet ==
    InitOn(SingleItemDocuments(
        {TextItemOf(Ids("a"), <<>>, contents) :
            contents \in SeqsUpTo(ContentElems, MaxContents)}))

SpecContentSet == InitContentSet /\ [][Next]_vars

\* -- bodies of inlineXML

BodyText == <<"a", "\n", " ", " ", " ", " ", "b", "\n", "c">>

BodyElems ==
    {X(tag, EmptyDict, text, <<>>) : tag \in {"p", "div"}, text \in {None, BodyText}}

InlineXML(text, children) ==
    E("inlineXML", [contenttype |-> <<"application/xhtml+xml">>], None,
      <<X("html", EmptyDict, None, <<X("body", EmptyDict, text, children)>>)>>)

InitInline ==
    InitOn(SingleItemDocuments(
        {TextItemOf(Ids("a"), <<>>, <<InlineXML(text, children)>>) :
            text \in {None, <<"direct">>},
            children \in SeqsUpTo(BodyElems, MaxBodyChildren)}))

SpecInline == InitInline /\ [][Next]_vars

\* ---------------------------------------------------------------- claims

RECURSIVE ChildrenOf(_)
ChildrenOf(elems) ==
    IF elems = <<>> THEN <<>> ELSE elems[1].children \o ChildrenOf(Tail(elems))

\* the item elements of the document, in document order
SourceItems ==
    ChildrenOf(SelectSeq(xml.children, LAMBDA c : c.tag = <<XMLNS, "itemSet">>))

SourceHeaders == SelectSeq(xml.children, LAMBDA c : c.tag = <<XMLNS, "header">>)

HeaderPriorities ==
    IF SourceHeaders = <<>> THEN <<>>
    ELSE SelectSeq(SourceHeaders[1].children, LAMBDA c : c.tag = <<XMLNS, "priority">>)

HasIds(t) == {"guid", "version"} \subseteq DOMAIN t.attrib

InParseItem ==
    pc \in {"parse_item_meta", "parse_content_meta", "parse_rights_info",
            "is_normal_package", "parse_group_set", "parse_content_set", "append"}

\* C1: when some item of the document has no guid attribute, at whatever
\* position, parse() ends in a ParserError that wraps the exception raised
\* (the KeyError of the item when the header parsed) and hands back no item
\* list; parse() ends in an item list or a ParserError, nothing else.
C1_AllOrNothing ==
    pc = "done" =>
        /\ result.kind \in {"items", "ParserError"}
        /\ (\E k \in 1..Len(SourceItems) : "guid" \notin DOMAIN SourceItems[k].attrib) =>
              /\ result.kind = "ParserError"
              /\ DOMAIN result = {"kind", "cause"}
              /\ result.cause = exc
              /\ exc # "none"
              /\ (SourceHeaders = <<>> \/ HeaderPriorities # <<>>) => exc = "KeyError"

C1_Witness ==
    /\ pc = "done"
    /\ Len(SourceItems) = 3
    /\ SourceItems[1] \in WellFormedItems
    /\ "guid" \notin DOMAIN SourceItems[2].attrib
    /\ SourceItems[3] \in WellFormedItems
    /\ Len(items) = 1
    /\ result = [kind |-> "ParserError", cause |-> "KeyError"]

ExpectedPriority ==
    IF HeaderPriorities = <<>> THEN 5 ELSE map_priority(HeaderPriorities[1].text)

IsMinimal(t) ==
    /\ HasIds(t)
    /\ Len(t.children) = 1
    /\ t.children[1] \in {ItemMetaOf("text"), ItemMetaOf("composite")}

\* C3: a minimal item (guid, version and a complete itemMeta, nothing else)
\* parses, with slugline, headline and ednote empty and no urgency, byline,
\* description, language or usageterms.
C3_MinimalItem ==
    (pc = "done" /\ Len(SourceItems) = 1 /\ IsMinimal(SourceItems[1])) =>
        /\ result.kind = "items"
        /\ Len(result.items) = 1
        /\ LET it == result.items[1] IN
              /\ it["slugline"] = <<>>
              /\ it["headline"] = <<>>
              /\ it["ednote"] = <<>>
              /\ DOMAIN it \cap {"urgency", "byline", "description_text",
                                 "archive_description", "language", "usageterms"} = {}

IdsOf(it, src) ==
    /\ HasIds(src)
    /\ it["guid"] = src.attrib["guid"] \o <<":">> \o src.attrib["version"]
    /\ it["uri"] = src.attrib["guid"]
    /\ it["version"] = src.attrib["version"]

\* C4: the item parse_item returns for an element has guid = guid attribute,
\* ':', version attribute, uri = guid attribute and version = version
\* attribute; an element missing either attribute gets no record and fails
\* the parse.
C4_Guid ==
    /\ \A k \in 1..Len(items) : IdsOf(items[k], SourceItems[k])
    /\ InParseItem => IdsOf(item, tree)
    /\ pc = "done" =>
          \A k \in 1..Len(SourceItems) :
              ~HasIds(SourceItems[k]) => (result.kind = "ParserError" /\ Len(items) < k)

C4_Witness ==
    /\ pc = "done"
    /\ result.kind = "items"
    /\ Len(result.items) = 1
    /\ SourceItems[1].attrib = [guid |-> <<"a">>, version |-> <<"1">>]
    /\ result.items[1]["guid"] = <<"a", ":", "1">>
    /\ result.items[1]["uri"] = <<"a">>

OneShape(it) ==
    IF is_normal_package(it)
    THEN "groups" \in DOMAIN it /\ DOMAIN it \cap {"body_html", "renditions"} = {}
    ELSE "renditions" \in DOMAIN it /\ "groups" \notin DOMAIN it

\* C5: an item returned by parse_item has groups and neither body_html nor
\* renditions when is_normal_package was true, renditions and no groups when
\* it was false; is_normal_package is called once per item, after
\* parse_item_meta, parse_content_meta and parse_rights_info and before
\* parse_group_set or parse_content_set.
C5_OneShape ==
    /\ \A k \in 1..Len(items) : OneShape(items[k])
    /\ pc = "append" =>
          /\ OneShape(item)
          /\ calls = <<"parse_item", "parse_item_meta", "parse_content_meta",
                       "parse_rights_info", "is_normal_package",
                       IF is_normal_package(item)
                       THEN "parse_group_set" ELSE "parse_content_set">>

C5_Witness ==
    /\ pc = "append"
    /\ is_normal_package(item)
    /\ Has(tree, <<XMLNS, "contentSet">>)
    /\ item["groups"] # <<>>
    /\ "renditions" \notin DOMAIN item

\* the one item of a document holding a text item with the given children of
\* contentMeta and contentSet
IsTextItem(t) ==
    /\ Len(t.children) = 3
    /\ t = TextItemOf(Ids("a"), t.children[2].children, t.children[3].children)

MetaChildren == SourceItems[1].children[2].children

SubjectsOfMeta == SelectSeq(MetaChildren, LAMBDA c : c.tag = <<XMLNS, "subject">>)

\* the code of a subject whose qcode is 'subj', ':', a code of the table
IsTopic(s) ==
    /\ "qcode" \in DOMAIN s.attrib
    /\ LET q == s.attrib["qcode"] IN
          /\ Len(q) >= 2
          /\ q[1] = "subj"
          /\ q[2] = ":"
          /\ \A k \in 3..Len(q) : q[k] # ":"
          /\ SubSeq(q, 3, Len(q)) \in DOMAIN subject_codes

Topics == {k \in 1..Len(SubjectsOfMeta) : IsTopic(SubjectsOfMeta[k])}

\* C6: the subject list holds, in source order, one {qcode, name} entry for
\* each subject whose qcode is 'subj:<code>' with <code> in the subject-code
\* table, and nothing for any other subject; no subject makes the parse fail.
C6_Subjects ==
    (pc = "done" /\ Len(SourceItems) = 1 /\ IsTextItem(SourceItems[1])) =>
        /\ result.kind = "items"
        /\ LET subject == result.items[1]["subject"] IN
              /\ Len(subject) = Cardinality(Topics)
              /\ \A k \in Topics :
                    LET code == SubSeq(SubjectsOfMeta[k].attrib["qcode"], 3,
                                       Len(SubjectsOfMeta[k].attrib["qcode"]))
                    IN subject[Cardinality({m \in Topics : m <= k})]
                         = [qcode |-> code, name |-> subject_codes[code]]

C6_Witness ==
    /\ pc = "done"
    /\ Len(SourceItems) = 1
    /\ IsTextItem(SourceItems[1])
    /\ Len(SubjectsOfMeta) = 3
    /\ Topics = {1, 3}
    /\ SubjectsOfMeta[2].attrib = [qcode |-> <<"subj", ":", "99999999">>]
    /\ result.kind = "items"
    /\ result.items[1]["subject"] =
          <<[qcode |-> <<"04000000">>, name |-> <<"economy, business and finance">>],
            [qcode |-> <<"15000000">>, name |-> <<"sport">>]>>

Places ==
    {k \in 1..Len(SubjectsOfMeta) :
        "type" \in DOMAIN SubjectsOfMeta[k].attrib
        /\ SubjectsOfMeta[k].attrib["type"] = <<"cptType", ":", "5">>}

\* the text of the first name child, else the literal attribute, else None
NameOf(el) ==
    LET names == SelectSeq(el.children, LAMBDA c : c.tag = <<XMLNS, "name">>) IN
    IF names # <<>> THEN names[1].text
    ELSE IF "literal" \in DOMAIN el.attrib THEN el.attrib["literal"] ELSE None

\* C9: place is absent when no subject has type 'cptType:5'; otherwise it is
\* the name of the last such subject, followed by the name of its broader
\* child when it has one: one or two entries, none from an earlier subject.
C9_Places ==
    (pc = "done" /\ Len(SourceItems) = 1 /\ IsTextItem(SourceItems[1])) =>
        /\ result.kind = "items"
        /\ LET it == result.items[1] IN
           IF Places = {} THEN "place" \notin DOMAIN it
           ELSE LET last == SubjectsOfMeta[CHOOSE k \in Places : \A m \in Places : m <= k]
                    broader == SelectSeq(last.children,
                                         LAMBDA c : c.tag = <<XMLNS, "broader">>)
                IN /\ "place" \in DOMAIN it
                   /\ Len(it["place"]) = IF broader = <<>> THEN 1 ELSE 2
                   /\ it["place"][1] = [name |-> NameOf(last)]
                   /\ broader # <<>> => it["place"][2] = [name |-> NameOf(broader[1])]

C9_Witness ==
    /\ pc = "done"
    /\ Len(SourceItems) = 1
    /\ IsTextItem(SourceItems[1])
    /\ Places = {1, 2, 3}
    /\ result.kind = "items"
    /\ SubjectsOfMeta[1].attrib = [type |-> Place, literal |-> <<"Berlin">>]
    /\ result.items[1]["place"] = <<[name |-> <<"Lyon">>], [name |-> <<"France">>]>>
    /\ Len(SubjectsOfMeta[2].children) = 2

IsPackageItem(t) ==
    /\ Len(t.children) = 3
    /\ t = PackageItemOf(Ids("b"), t.children[3].children)

SourceGroups == SourceItems[1].children[3].children

IsInternalRef(r) == "idref" \in DOMAIN r.attrib

CompleteRef(r) ==
    \/ IsInternalRef(r)
    \/ /\ {"residref", "contenttype"} \subseteq DOMAIN r.attrib
       /\ \E c \in 1..Len(r.children) :
             r.children[c].tag = <<XMLNS, "itemClass">>
       /\ "qcode" \in DOMAIN
             SelectSeq(r.children, LAMBDA c : c.tag = <<XMLNS, "itemClass">>)[1].attrib

CompleteGroup(g) ==
    /\ {"id", "role"} \subseteq DOMAIN g.attrib
    /\ \A r \in 1..Len(g.children) : CompleteRef(g.children[r])

\* what the claim says of the entry of ref child r
RefEntry(r, entry) ==
    IF IsInternalRef(r) THEN entry = ("idRef" :> r.attrib["idref"])
    ELSE LET headlines == SelectSeq(r.children, LAMBDA c : c.tag = <<XMLNS, "headline">>)
             classes == SelectSeq(r.children, LAMBDA c : c.tag = <<XMLNS, "itemClass">>)
         IN /\ DOMAIN entry = {"residRef", "contentType", "itemClass"}
                              \cup (IF headlines = <<>> THEN {} ELSE {"headline"})
            /\ entry["residRef"] = IF "version" \in DOMAIN r.attrib
                                   THEN r.attrib["residref"] \o <<":">> \o r.attrib["version"]
                                   ELSE r.attrib["residref"]
            /\ entry["contentType"] = r.attrib["contenttype"]
            /\ entry["itemClass"] = classes[1].attrib["qcode"]
            /\ headlines # <<>> => entry["headline"] = headlines[Len(headlines)].text

\* C7: groups holds one {id, role, refs} entry per child of groupSet, in
\* source order, and refs one entry per child of the group, in source order:
\* {idRef} alone for a child with idref; otherwise residRef (residref, with
\* ':' and the version when there is one), contentType, itemClass and the
\* text of the last headline child, if any.  A child without idref that lacks
\* residref, contenttype or the qcode of itemClass fails the parse (as does a
\* group without id or role).
C7_Groups ==
    (pc = "done" /\ Len(SourceItems) = 1 /\ IsPackageItem(SourceItems[1])) =>
        IF \A g \in 1..Len(SourceGroups) : CompleteGroup(SourceGroups[g])
        THEN /\ result.kind = "items"
             /\ LET groups == result.items[1]["groups"] IN
                   /\ Len(groups) = Len(SourceGroups)
                   /\ \A g \in 1..Len(SourceGroups) :
                         /\ groups[g].id = SourceGroups[g].attrib["id"]
                         /\ groups[g].role = SourceGroups[g].attrib["role"]
                         /\ Len(groups[g].refs) = Len(SourceGroups[g].children)
                         /\ \A r \in 1..Len(SourceGroups[g].children) :
                               RefEntry(SourceGroups[g].children[r], groups[g].refs[r])
        ELSE result.kind = "ParserError"

C7_Witness ==
    /\ pc = "done"
    /\ Len(SourceItems) = 1
    /\ IsPackageItem(SourceItems[1])
    /\ result.kind = "items"
    /\ Len(result.items[1]["groups"]) = 2
    /\ result.items[1]["groups"][1].refs = <<("idRef" :> <<"G2">>)>>
    /\ Len(result.items[1]["groups"][2].refs) = 1
    /\ DOMAIN result.items[1]["groups"][2].refs[1] =
          {"residRef", "contentType", "itemClass", "headline"}
    /\ result.items[1]["groups"][2].refs[1]["residRef"] = <<"X", ":", "2">>
    /\ result.items[1]["groups"][2].refs[1]["headline"] = <<"h2">>

Contents == SourceItems[1].children[3].children

IsRemote(c) == c.tag \notin {<<XMLNS, "inlineXML">>, <<XMLNS, "inlineData">>}

\* the rendition name of a remote child: what follows 'rendition:'
NameOfRendition(c) == SubSeq(c.attrib["rendition"], 3, Len(c.attrib["rendition"]))

Remotes == {k \in 1..Len(Contents) : IsRemote(Contents[k])}

\* the last remote child of each rendition name
LastOfName == {k \in Remotes : \A m \in Remotes :
                  NameOfRendition(Contents[m]) = NameOfRendition(Contents[k]) => m <= k}

SizeOf(c) == IF "size" \in DOMAIN c.attrib THEN IntOfDigits(c.attrib["size"]) ELSE 0

\* what claim C8 says of all of a descriptor but its reference id
Descriptor(c, d) ==
    /\ d.sizeinbytes = SizeOf(c)
    /\ d.mimetype = c.attrib["contenttype"]
    /\ "href" \in DOMAIN c.attrib => d.href = c.attrib["href"]
    /\ "href" \notin DOMAIN c.attrib => d.href = None

VersionedRef(c) ==
    IF {"residref", "version"} \subseteq DOMAIN c.attrib
    THEN c.attrib["residref"] \o <<":">> \o c.attrib["version"]
    ELSE IF "residref" \in DOMAIN c.attrib THEN c.attrib["residref"] ELSE None

BareRef(c) == IF "residref" \in DOMAIN c.attrib THEN c.attrib["residref"] ELSE None

\* renditions holds the descriptor of the last remote child of each name,
\* its reference id with or without the version
Renditions(versioned) ==
    (pc = "done" /\ Len(SourceItems) = 1 /\ IsTextItem(SourceItems[1])
     /\ result.kind = "items") =>
        LET renditions == result.items[1]["renditions"] IN
        /\ DOMAIN renditions = {NameOfRendition(Contents[k]) : k \in Remotes}
        /\ \A k \in LastOfName :
              /\ Descriptor(Contents[k], renditions[NameOfRendition(Contents[k])])
              /\ renditions[NameOfRendition(Contents[k])].residRef =
                    IF versioned THEN VersionedRef(Contents[k]) ELSE BareRef(Contents[k])

\* C8 as claimed: renditions maps the second ':'-segment of the rendition
\* attribute of each remote child to the descriptor of the last child of that
\* name: reference id = residref with ':' and the version appended when there
\* is a version attribute, size = int(size) or 0, mime type = contenttype,
\* href = href when present.
C8_RenditionsVersioned == Renditions(TRUE)

\* C8 as amended: the same, with reference id = the bare residref attribute
\* whether or not there is a version attribute (None when there is no residref).
C8_Renditions == Renditions(FALSE)

C8_Witness ==
    /\ pc = "done"
    /\ Len(SourceItems) = 1
    /\ IsTextItem(SourceItems[1])
    /\ result.kind = "items"
    /\ Len(Contents) = 3
    /\ Contents[1] = Original
    /\ Contents[3].attrib = [rendition |-> <<"rendition", ":", "original">>,
                             residref |-> <<"R2">>, contenttype |-> <<"image/png">>]
    /\ LastOfName = {2, 3}
    /\ result.items[1]["renditions"][<<"original">>].residRef = <<"R2">>
    /\ result.items[1]["renditions"][<<"original">>].sizeinbytes = 0
    /\ result.items[1]["renditions"][<<"thumbnail">>].residRef = <<"R3">>
    /\ result.items[1]["renditions"][<<"thumbnail">>].sizeinbytes = 10

Body == Contents[1].children[1].children[1]

Texted == {k \in 1..Len(Body.children) : Truthy(Body.children[k].text)}

TextedSeq == SelectSeq(Body.children, LAMBDA c : Truthy(c.text))

\* C10: body_html is the formatted children joined by '\n', with the
\* line-break rewrite applied exactly when one child alone has text and that
\* child is a p, whatever the empty children around it; when no child has
\* text and the body has text it is <pre>text</pre> with format preformatted,
\* and format is set in no other case.
C10_Inline ==
    (pc = "done" /\ Len(SourceItems) = 1 /\ IsTextItem(SourceItems[1])
     /\ Len(Contents) = 1 /\ Contents[1].tag = <<XMLNS, "inlineXML">>) =>
        /\ result.kind = "items"
        /\ LET it == result.items[1] IN
              /\ ("format" \in DOMAIN it) <=> (Texted = {} /\ Truthy(Body.text))
              /\ "format" \in DOMAIN it =>
                    /\ it["format"] = <<"preformatted">>
                    /\ it["body_html"] = <<"<", "pre", ">">> \o Body.text \o <<"</", "pre", ">">>
              /\ Texted # {} =>
                    it["body_html"] =
                        IF Cardinality(Texted) = 1 /\ TextedSeq[1].tag = <<XHTML, "p">>
                        THEN Breaks(Format(TextedSeq[1]))
                        ELSE Join(<<"\n">>, [k \in 1..Len(TextedSeq) |-> Format(TextedSeq[k])])
====
